---- MODULE Spec2Model ----
(***************************************************************************)
(* sjtu::list<T> (src/list.hpp): a circular doubly-linked ring of nodes    *)
(* around one sentinel per container, with iterators that are              *)
(* (owner, node) pairs.                                                    *)
(*                                                                         *)
(* Two containers live at the fixed sentinel addresses 1 and 2; data nodes *)
(* are heap cells at the addresses above them.  T is int: operator< and    *)
(* operator== are the integer ones, and two nodes with equal values are    *)
(* told apart by their addresses.                                          *)
(***************************************************************************)
EXTENDS Integers, Sequences, FiniteSets, TLC

\* ---------------------------------------------------------------- bounds
MaxNodes == 3
MaxVal == 1

\* ------------------------------------------------------------- addresses
NULL == 0
NoVal == 0 - 1
WILD == 0 - 1
Lists == {1, 2}
DataAddrs == (Cardinality(Lists) + 1)..(Cardinality(Lists) + MaxNodes)
Addrs == Lists \cup DataAddrs
Values == 0..MaxVal
s(l) == l
Other(l) == CHOOSE o \in Lists : o # l

VARIABLES
  next,     \* node::next, per address
  prev,     \* node::prev, per address
  val,      \* node::val (NoVal: nullptr), per address
  alloc,    \* the data addresses that hold a constructed node
  n,        \* list::n, per container
  it,       \* the caller's iterator variable: [owner, p]
  why,      \* ghost: "live", or how the node `it` denoted left its container
  last,     \* ghost: the last call, its container, outcome and return value
  misused,  \* ghost: a call through an invalidated iterator went unrejected
  frame     \* the call that is being executed statement by statement, if any

vars == <<next, prev, val, alloc, n, it, why, last, misused, frame>>

\* No call is under way.
Idle == [pc |-> "idle"]

\* The memory and the counts as one value, for the operators below.
H == [next |-> next, prev |-> prev, val |-> val, alloc |-> alloc, n |-> n]

SetH(h) ==
  /\ next' = h.next
  /\ prev' = h.prev
  /\ val' = h.val
  /\ alloc' = h.alloc
  /\ n' = h.n

Free(h) == DataAddrs \ h.alloc

\* ----------------------------------------------------------- class node
\* node(): prev(this), next(this), val(nullptr)
node_sentinel(h, a) ==
  [h EXCEPT !.next[a] = a, !.prev[a] = a, !.val[a] = NoVal]

\* new node(value): prev(nullptr), next(nullptr), val(new T(value)), at the
\* address a the allocator hands out.
node_data(h, a, v) ==
  [h EXCEPT !.alloc = @ \cup {a}, !.next[a] = NULL, !.prev[a] = NULL, !.val[a] = v]

\* delete x: ~node() releases the value and nulls val; the cell goes back to
\* the allocator.  What a later read of the released cell yields is not
\* stored: see ReadNext / ReadVal.
delete_node(h, a) ==
  [h EXCEPT !.alloc = @ \ {a}, !.next[a] = NULL, !.prev[a] = NULL, !.val[a] = NoVal]

\* ------------------------------------------------------ link primitives
\* Mutant of insert_node: cur is linked after pos instead of before it.
insert_node_after(h, pos, cur) ==
  LET nx1 == [h.next EXCEPT ![cur] = h.next[pos]]
      pv1 == [h.prev EXCEPT ![cur] = pos]
      pv2 == [pv1 EXCEPT ![nx1[cur]] = cur]
      nx2 == [nx1 EXCEPT ![pos] = cur]
  IN [h EXCEPT !.next = nx2, !.prev = pv2]

\* node *insert(node *pos, node *cur): link cur before pos.
insert_node(h, pos, cur) ==
  LET nx1 == [h.next EXCEPT ![cur] = pos]
      pv1 == [h.prev EXCEPT ![cur] = h.prev[pos]]
      nx2 == [nx1 EXCEPT ![pv1[pos]] = cur]
      pv2 == [pv1 EXCEPT ![pos] = cur]
  IN [h EXCEPT !.next = nx2, !.prev = pv2]

\* Mutant of erase_node: the store pos->prev->next = pos->next is forgotten.
erase_node_half(h, pos) ==
  [h EXCEPT !.prev[h.next[pos]] = h.prev[pos]]

\* node *erase(node *pos): unlink pos (do not delete).
erase_node(h, pos) ==
  LET nx1 == [h.next EXCEPT ![h.prev[pos]] = h.next[pos]]
      pv1 == [h.prev EXCEPT ![nx1[pos]] = h.prev[pos]]
  IN [h EXCEPT !.next = nx1, !.prev = pv1]

\* ------------------------------------------------------------ traversal
\* The nodes met from f[x] on, following f until the sentinel sn, as the
\* loops `for (x = s->next; x != s; x = x->next)` meet them.  The fuel stops
\* the walk on a chain that does not come back to sn.
RECURSIVE Walk(_, _, _, _)
Walk(f, x, sn, fuel) ==
  IF x = sn \/ fuel = 0 \/ x \notin Addrs THEN <<>>
  ELSE <<x>> \o Walk(f, f[x], sn, fuel - 1)

Fwd(h, l) == Walk(h.next, h.next[s(l)], s(l), MaxNodes + 1)
Bwd(h, l) == Walk(h.prev, h.prev[s(l)], s(l), MaxNodes + 1)

Range(q) == {q[i] : i \in 1..Len(q)}
Rev(q) == [i \in 1..Len(q) |-> q[Len(q) + 1 - i]]
Vals(h, q) == [i \in 1..Len(q) |-> h.val[q[i]]]

\* ------------------------------------------------------------ iterators
\* iterator(): owner(nullptr), p(nullptr)
iterator_default == [owner |-> NULL, p |-> NULL]
\* iterator(list *o, node *ptr)
iterator(o, ptr) == [owner |-> o, p |-> ptr]
\* begin() / end()
begin(h, l) == iterator(l, h.next[s(l)])
end(l) == iterator(l, s(l))

Ok == "ok"
invalid_iterator == "invalid_iterator"
container_is_empty == "container_is_empty"

\* The record of a call: the operation, its container, its argument, its
\* outcome, what it returned, whether it changed the memory or the counts (chg)
\* and whether it repeats the call before it (rep).
Call(op, l, arg, res, ret, chg, rep) ==
  [op |-> op, l |-> l, arg |-> arg, res |-> res, ret |-> ret, chg |-> chg, rep |-> rep]

Result(res, h, ret) == [res |-> res, h |-> h, ret |-> ret]

\* A pointer read out of a released cell, or through a pointer that was read
\* out of one: any pointer value.
ArbPtr == Addrs \cup {NULL, WILD}
Live(h) == Lists \cup h.alloc

\* p->next, p->prev and p->val as the code reads them.  A constructed node or
\* a sentinel yields its field; a released cell yields whatever the allocator
\* and the build left there (the nullptr ~node() stored, or anything else).
ReadNext(h, p) == IF p \in Live(h) THEN {h.next[p]} ELSE ArbPtr
ReadPrev(h, p) == IF p \in Live(h) THEN {h.prev[p]} ELSE ArbPtr
ReadVal(h, p) == IF p \in Live(h) THEN {h.val[p]} ELSE {NoVal} \cup Values

\* iterator::operator++ / operator++(int), const_iterator alike: the
\* outcomes [res, it] of incrementing i.
iterator_inc(h, i) ==
  IF i.owner = NULL \/ i.p = NULL \/ i.p = s(i.owner)
  THEN {[res |-> invalid_iterator, it |-> i]}
  ELSE {[res |-> Ok, it |-> iterator(i.owner, q)] : q \in ReadNext(h, i.p)}

\* Mutant of iterator_dec: --end() does not look at the count.
iterator_dec_any_end(h, i) ==
  IF i.owner = NULL \/ i.p = NULL
  THEN {[res |-> invalid_iterator, it |-> i]}
  ELSE IF i.p = s(i.owner)
  THEN {[res |-> Ok, it |-> iterator(i.owner, h.prev[s(i.owner)])]}
  ELSE {[res |-> Ok, it |-> iterator(i.owner, q)] : q \in ReadPrev(h, i.p)}

\* iterator::operator-- / operator--(int), const_iterator alike.
iterator_dec(h, i) ==
  IF i.owner = NULL \/ i.p = NULL
  THEN {[res |-> invalid_iterator, it |-> i]}
  ELSE IF i.p = s(i.owner)
  THEN IF h.n[i.owner] = 0
       THEN {[res |-> invalid_iterator, it |-> i]}
       ELSE {[res |-> Ok, it |-> iterator(i.owner, h.prev[s(i.owner)])]}
  ELSE {[res |-> Ok, it |-> iterator(i.owner, q)] : q \in ReadPrev(h, i.p)}

\* iterator::operator* / operator->, const_iterator alike: the outcomes
\* [res, ret] of dereferencing i.
iterator_deref(h, i) ==
  IF i.owner = NULL \/ i.p = NULL \/ i.p = s(i.owner)
  THEN {[res |-> invalid_iterator, ret |-> NoVal]}
  ELSE {IF v = NoVal THEN [res |-> invalid_iterator, ret |-> NoVal]
                     ELSE [res |-> Ok, ret |-> v] : v \in ReadVal(h, i.p)}

\* ---------------------------------------------------- insert and erase
\* iterator insert(iterator pos, const T &value); a is the cell `new` returns.
list_insert(h, l, pos, a, v) ==
  IF pos.owner # l \/ pos.p = NULL
  THEN Result(invalid_iterator, h, NULL)
  ELSE LET h1 == node_data(h, a, v)
           h2 == insert_node(h1, pos.p, a)
       IN Result(Ok, [h2 EXCEPT !.n[l] = @ + 1], a)

\* Mutant of list_erase: the iterator is checked before the emptiness.
list_erase_iter_first(h, l, pos) ==
  IF pos.owner # l \/ pos.p = NULL \/ pos.p = s(l)
  THEN Result(invalid_iterator, h, NULL)
  ELSE IF h.n[l] = 0
  THEN Result(container_is_empty, h, NULL)
  ELSE LET nextp == h.next[pos.p]
           h1 == erase_node(h, pos.p)
           h2 == delete_node(h1, pos.p)
       IN Result(Ok, [h2 EXCEPT !.n[l] = @ - 1], nextp)

\* Mutant of list_erase: --n is done ahead of the iterator check.
list_erase_count_first(h, l, pos) ==
  IF h.n[l] = 0
  THEN Result(container_is_empty, h, NULL)
  ELSE IF pos.owner # l \/ pos.p = NULL \/ pos.p = s(l)
  THEN Result(invalid_iterator, [h EXCEPT !.n[l] = @ - 1], NULL)
  ELSE LET nextp == h.next[pos.p]
           h1 == erase_node(h, pos.p)
           h2 == delete_node(h1, pos.p)
       IN Result(Ok, [h2 EXCEPT !.n[l] = @ - 1], nextp)

\* iterator erase(iterator pos)
list_erase(h, l, pos) ==
  IF h.n[l] = 0
  THEN Result(container_is_empty, h, NULL)
  ELSE IF pos.owner # l \/ pos.p = NULL \/ pos.p = s(l)
  THEN Result(invalid_iterator, h, NULL)
  ELSE LET nextp == h.next[pos.p]
           h1 == erase_node(h, pos.p)
           h2 == delete_node(h1, pos.p)
       IN Result(Ok, [h2 EXCEPT !.n[l] = @ - 1], nextp)

\* const T & front() const / const T & back() const
list_front(h, l) ==
  IF h.n[l] = 0 THEN Result(container_is_empty, h, NoVal)
  ELSE Result(Ok, h, h.val[h.next[s(l)]])
list_back(h, l) ==
  IF h.n[l] = 0 THEN Result(container_is_empty, h, NoVal)
  ELSE Result(Ok, h, h.val[h.prev[s(l)]])

\* void push_back(const T &value) / void push_front(const T &value)
list_push_back(h, l, a, v) == list_insert(h, l, iterator(l, s(l)), a, v)
list_push_front(h, l, a, v) == list_insert(h, l, iterator(l, h.next[s(l)]), a, v)

\* void pop_back() / void pop_front()
list_pop_back(h, l) ==
  IF h.n[l] = 0 THEN Result(container_is_empty, h, NULL)
  ELSE list_erase(h, l, iterator(l, h.prev[s(l)]))
list_pop_front(h, l) ==
  IF h.n[l] = 0 THEN Result(container_is_empty, h, NULL)
  ELSE list_erase(h, l, iterator(l, h.next[s(l)]))

\* ------------------------------------------------------- clear and copy
\* The loop of clear(): while (cur != s) { nx = cur->next; delete cur; cur = nx; }
RECURSIVE clear_loop(_, _, _, _)
clear_loop(h, cur, sn, fuel) ==
  IF cur = sn \/ fuel = 0 THEN h
  ELSE clear_loop(delete_node(h, cur), h.next[cur], sn, fuel - 1)

\* virtual void clear()
list_clear(h, l) ==
  IF h.n[l] = 0
  THEN [h EXCEPT !.next[s(l)] = s(l), !.prev[s(l)] = s(l)]
  ELSE LET h1 == clear_loop(h, h.next[s(l)], s(l), MaxNodes + 1)
       IN [h1 EXCEPT !.next[s(l)] = s(l), !.prev[s(l)] = s(l), !.n[l] = 0]

\* for (x = other.s->next; x != other.s; x = x->next) push_back(*(x->val));
\* cells[k] is the cell `new` returns for the k-th copy.
RECURSIVE copy_loop(_, _, _, _, _, _)
copy_loop(h, l, x, osn, cells, k) ==
  IF x = osn \/ k > Len(cells) THEN h
  ELSE copy_loop(list_push_back(h, l, cells[k], h.val[x]).h, l, h.next[x], osn, cells, k + 1)

\* Mutant of list_assign: after clear() the sentinel is pointed at other's
\* nodes instead of at copies of them.
list_assign_shallow(h, l, o, cells) ==
  IF l = o THEN h
  ELSE LET h1 == list_clear(h, l)
       IN [h1 EXCEPT !.next[s(l)] = h.next[s(o)], !.prev[s(l)] = h.prev[s(o)],
                     !.n[l] = h.n[o]]

\* list &operator=(const list &other)
list_assign(h, l, o, cells) ==
  IF l = o THEN h
  ELSE copy_loop(list_clear(h, l), l, h.next[s(o)], s(o), cells, 1)

\* list(const list &other): s(new node()), n(0), then the copy loop.  The new
\* object takes the place of container l, whose sentinel is constructed anew.
list_copy(h, l, o, cells) ==
  LET h1 == node_sentinel([h EXCEPT !.n[l] = 0], s(l))
  IN copy_loop(h1, l, h.next[s(o)], s(o), cells, 1)

\* The ways `new` can hand out k cells in a row from the free cells S.
CellSeqs(S, k) == {q \in [1..k -> S] : \A i, j \in 1..k : i # j => q[i] # q[j]}

\* ----------------------------------------------------------------- sort
\* operator< of T
Less(a, b) == a < b
\* operator== of T
Equal(a, b) == a = b

Min(a, b) == IF a < b THEN a ELSE b

\* Mutant of sort_takes_left: the left element is taken only when it is less.
sort_takes_left_strict(h, x, y) == Less(h.val[x], h.val[y])

\* if (!(*((arr[q])->val) < *((arr[p])->val))), with x = arr[p], y = arr[q]:
\* stable, choose left when equal.
sort_takes_left(h, x, y) == ~Less(h.val[y], h.val[x])

\* The two-run merge of sort(): arr[p..mid) and arr[q..r) into tmp, taking the
\* left element unless the right one is less (0-based positions, as in the code).
RECURSIVE sort_merge(_, _, _, _, _, _)
sort_merge(h, arr, p, mid, q, r) ==
  IF p < mid /\ q < r
  THEN IF sort_takes_left(h, arr[p + 1], arr[q + 1])
       THEN <<arr[p + 1]>> \o sort_merge(h, arr, p + 1, mid, q, r)
       ELSE <<arr[q + 1]>> \o sort_merge(h, arr, p, mid, q + 1, r)
  ELSE IF p < mid THEN <<arr[p + 1]>> \o sort_merge(h, arr, p + 1, mid, q, r)
  ELSE IF q < r THEN <<arr[q + 1]>> \o sort_merge(h, arr, p, mid, q + 1, r)
  ELSE <<>>

\* for (i = 0; i < m; i += (width << 1)): one pass over arr at this width.
RECURSIVE sort_pass(_, _, _, _)
sort_pass(h, arr, width, i) ==
  LET m == Len(arr)
      mid == Min(i + width, m)
      r == Min(i + 2 * width, m)
  IN IF i >= m THEN <<>>
     ELSE sort_merge(h, arr, i, mid, mid, r) \o sort_pass(h, arr, width, i + 2 * width)

\* for (width = 1; width < m; width <<= 1)
RECURSIVE sort_widths(_, _, _)
sort_widths(h, arr, width) ==
  IF width >= Len(arr) THEN arr
  ELSE sort_widths(h, sort_pass(h, arr, width, 0), 2 * width)

\* Mutant of sort_relink: the links stay and the values are moved instead, the
\* i-th node in ring order receiving the value of arr[i].
sort_relink_values(h, sn, arr) ==
  LET q == Walk(h.next, h.next[sn], sn, MaxNodes + 1)
  IN [h EXCEPT !.val = [x \in Addrs |->
                          IF \E i \in 1..Len(q) : q[i] = x
                          THEN h.val[arr[CHOOSE i \in 1..Len(q) : q[i] = x]]
                          ELSE h.val[x]]]

\* relink according to arr
sort_relink(h, sn, arr) ==
  LET m == Len(arr)
      nx == [x \in Addrs |->
               IF x = sn THEN arr[1]
               ELSE IF \E i \in 1..m : arr[i] = x
               THEN LET i == CHOOSE j \in 1..m : arr[j] = x
                    IN IF i = m THEN sn ELSE arr[i + 1]
               ELSE h.next[x]]
      pv == [x \in Addrs |->
               IF x = sn THEN arr[m]
               ELSE IF \E i \in 1..m : arr[i] = x
               THEN LET i == CHOOSE j \in 1..m : arr[j] = x
                    IN IF i = 1 THEN sn ELSE arr[i - 1]
               ELSE h.prev[x]]
  IN [h EXCEPT !.next = nx, !.prev = pv]

\* void sort()
list_sort(h, l) ==
  IF h.n[l] <= 1 THEN h
  ELSE sort_relink(h, s(l), sort_widths(h, Fwd(h, l), 1))

\* ---------------------------------------------------------------- merge
\* Mutant of merge_passes: a is passed only when it is less than b.
merge_passes_strict(h, a, b) == Less(h.val[a], h.val[b])

\* !(*b->val < *a->val): a stays in front of b (equal keys: a first).
merge_passes(h, a, b) == ~Less(h.val[b], h.val[a])

\* while (a != s && !(*b->val < *a->val)) a = a->next;
RECURSIVE merge_advance(_, _, _, _, _)
merge_advance(h, sn, a, b, fuel) ==
  IF fuel > 0 /\ a # sn /\ merge_passes(h, a, b)
  THEN merge_advance(h, sn, h.next[a], b, fuel - 1)
  ELSE a

\* while (b != other.s && (*b->val < *a->val)) { b = b->next; ++cnt; }
RECURSIVE merge_block(_, _, _, _, _, _)
merge_block(h, osn, a, b, cnt, fuel) ==
  IF fuel > 0 /\ b # osn /\ Less(h.val[b], h.val[a])
  THEN merge_block(h, osn, a, h.next[b], cnt + 1, fuel - 1)
  ELSE [b |-> b, cnt |-> cnt]

\* if (a == s): splice the remaining [b .. other.s->prev] at the end.
merge_splice_rest(h, l, o, b) ==
  LET b_end == h.prev[s(o)]
      nx1 == [h.next EXCEPT ![h.prev[b]] = h.next[b_end]]
      pv1 == [h.prev EXCEPT ![nx1[b_end]] = h.prev[b]]
      nx2 == [nx1 EXCEPT ![s(o)] = s(o)]
      pv2 == [pv1 EXCEPT ![s(o)] = s(o)]
      nx3 == [nx2 EXCEPT ![pv2[s(l)]] = b]
      pv3 == [pv2 EXCEPT ![b] = pv2[s(l)]]
      nx4 == [nx3 EXCEPT ![b_end] = s(l)]
      pv4 == [pv3 EXCEPT ![s(l)] = b_end]
  IN [h EXCEPT !.next = nx4, !.prev = pv4,
               !.n = [h.n EXCEPT ![l] = h.n[l] + h.n[o], ![o] = 0]]

\* Mutant of merge_take_block: the block is relinked and the two counts are
\* left as they were.
merge_take_block_uncounted(h, l, o, a, start, b, cnt) ==
  LET endblk == IF b = s(o) THEN h.prev[s(o)] ELSE h.prev[b]
      nx1 == [h.next EXCEPT ![h.prev[start]] = h.next[endblk]]
      pv1 == [h.prev EXCEPT ![nx1[endblk]] = h.prev[start]]
      nx2 == [nx1 EXCEPT ![pv1[a]] = start]
      pv2 == [pv1 EXCEPT ![start] = pv1[a]]
      nx3 == [nx2 EXCEPT ![endblk] = a]
      pv3 == [pv2 EXCEPT ![a] = endblk]
  IN [h EXCEPT !.next = nx3, !.prev = pv3]

\* else: take the block [start .. endblk] of other with values < *a and link
\* it before a.
merge_take_block(h, l, o, a, start, b, cnt) ==
  LET endblk == IF b = s(o) THEN h.prev[s(o)] ELSE h.prev[b]
      nx1 == [h.next EXCEPT ![h.prev[start]] = h.next[endblk]]
      pv1 == [h.prev EXCEPT ![nx1[endblk]] = h.prev[start]]
      nx2 == [nx1 EXCEPT ![pv1[a]] = start]
      pv2 == [pv1 EXCEPT ![start] = pv1[a]]
      nx3 == [nx2 EXCEPT ![endblk] = a]
      pv3 == [pv2 EXCEPT ![a] = endblk]
  IN [h EXCEPT !.next = nx3, !.prev = pv3,
               !.n = [h.n EXCEPT ![l] = h.n[l] + cnt, ![o] = h.n[o] - cnt]]

\* One iteration of `while (b != other.s)`: the memory after it, the cursors
\* a and b, and whether the iteration returned.
merge_iter(h, l, o, a, b) ==
  LET a1 == merge_advance(h, s(l), a, b, MaxNodes + 1)
  IN IF a1 = s(l)
     THEN [h |-> merge_splice_rest(h, l, o, b), a |-> a1, b |-> b, done |-> TRUE]
     ELSE LET blk == merge_block(h, s(o), a1, b, 0, MaxNodes + 1)
          IN [h |-> merge_take_block(h, l, o, a1, b, blk.b, blk.cnt),
              a |-> a1, b |-> blk.b, done |-> FALSE]

RECURSIVE merge_loop(_, _, _, _, _, _)
merge_loop(h, l, o, a, b, fuel) ==
  IF b = s(o) \/ fuel = 0 THEN h
  ELSE LET r == merge_iter(h, l, o, a, b)
       IN IF r.done THEN r.h ELSE merge_loop(r.h, l, o, r.a, r.b, fuel - 1)

\* if (n == 0): move all from other.
merge_move_all(h, l, o) ==
  LET nx1 == [h.next EXCEPT ![s(l)] = h.next[s(o)]]
      pv1 == [h.prev EXCEPT ![s(l)] = h.prev[s(o)]]
      pv2 == [pv1 EXCEPT ![nx1[s(l)]] = s(l)]
      nx2 == [nx1 EXCEPT ![pv2[s(l)]] = s(l)]
      nx3 == [nx2 EXCEPT ![s(o)] = s(o)]
      pv3 == [pv2 EXCEPT ![s(o)] = s(o)]
  IN [h EXCEPT !.next = nx3, !.prev = pv3,
               !.n = [h.n EXCEPT ![l] = h.n[o], ![o] = 0]]

\* Mutant of list_merge: the early return for this == &other and for an empty
\* other is left out.
list_merge_unguarded(h, l, o) ==
  IF h.n[l] = 0 THEN merge_move_all(h, l, o)
  ELSE merge_loop(h, l, o, h.next[s(l)], h.next[s(o)], MaxNodes + 1)

\* void merge(list &other)
list_merge(h, l, o) ==
  IF l = o \/ h.n[o] = 0 THEN h
  ELSE IF h.n[l] = 0 THEN merge_move_all(h, l, o)
  ELSE merge_loop(h, l, o, h.next[s(l)], h.next[s(o)], MaxNodes + 1)

\* -------------------------------------------------------------- reverse
\* do { t = cur->next; cur->next = cur->prev; cur->prev = t; cur = t; } while (cur != s);
RECURSIVE reverse_loop(_, _, _, _)
reverse_loop(h, cur, sn, fuel) ==
  LET t == h.next[cur]
      h1 == [h EXCEPT !.next[cur] = h.prev[cur], !.prev[cur] = t]
  IN IF t = sn \/ fuel = 0 THEN h1 ELSE reverse_loop(h1, t, sn, fuel - 1)

\* Mutant of list_reverse: the sentinel's own next and prev are not swapped.
list_reverse_data_only(h, l) ==
  LET h1 == reverse_loop(h, s(l), s(l), MaxNodes + 1)
  IN [h1 EXCEPT !.next[s(l)] = h.next[s(l)], !.prev[s(l)] = h.prev[s(l)]]

\* void reverse()
list_reverse(h, l) == reverse_loop(h, s(l), s(l), MaxNodes + 1)

\* --------------------------------------------------------------- unique
\* while (nx != s && (*(cur->val) == *(nx->val)))
\*   { to_del = nx; nx = nx->next; erase(to_del); delete to_del; --n; }
RECURSIVE unique_run(_, _, _, _, _)
unique_run(h, l, cur, nx, fuel) ==
  IF fuel > 0 /\ nx # s(l) /\ Equal(h.val[cur], h.val[nx])
  THEN LET h1 == delete_node(erase_node(h, nx), nx)
       IN unique_run([h1 EXCEPT !.n[l] = @ - 1], l, cur, h.next[nx], fuel - 1)
  ELSE [h |-> h, nx |-> nx]

\* while (cur != s) { nx = cur->next; ...; cur = nx; }
RECURSIVE unique_loop(_, _, _, _)
unique_loop(h, l, cur, fuel) ==
  IF cur = s(l) \/ fuel = 0 THEN h
  ELSE LET r == unique_run(h, l, cur, h.next[cur], MaxNodes + 1)
       IN unique_loop(r.h, l, r.nx, fuel - 1)

\* Mutant of list_unique: the early return is taken for two nodes as well.
list_unique_from_three(h, l) ==
  IF h.n[l] <= 2 THEN h
  ELSE unique_loop(h, l, h.next[s(l)], MaxNodes + 1)

\* void unique()
list_unique(h, l) ==
  IF h.n[l] <= 1 THEN h
  ELSE unique_loop(h, l, h.next[s(l)], MaxNodes + 1)

\* ======================================================== the program
\* list(): s(new node()), n(0), twice; one default-constructed iterator.
Init ==
  /\ next = [a \in Addrs |-> IF a \in Lists THEN a ELSE NULL]
  /\ prev = [a \in Addrs |-> IF a \in Lists THEN a ELSE NULL]
  /\ val = [a \in Addrs |-> NoVal]
  /\ alloc = {}
  /\ n = [l \in Lists |-> 0]
  /\ it = iterator_default
  /\ why = "live"
  /\ last = Call("list", NULL, NoVal, Ok, NULL, FALSE, FALSE)
  /\ misused = FALSE
  /\ frame = Idle

\* The operations whose contract speaks of calling them twice in a row.
Twice == {"sort", "reverse"}

\* Ghost: what the call did to the node `it` denotes.
WhyNext(removed, moved) ==
  IF why = "live" /\ it.p \in removed THEN "removed"
  ELSE IF why = "live" /\ it.p \in moved THEN "moved"
  ELSE why

\* A call on container l that leaves the caller's iterator variable alone.
\* (~misused: a run is followed up to the first call that writes through an
\* invalidated iterator, and no further.)
Do(op, l, arg, r, removed, moved) ==
  /\ ~misused
  /\ frame.pc = "idle"
  /\ SetH(r.h)
  /\ last' = Call(op, l, arg, r.res, r.ret, r.h # H, op \in Twice /\ last.op = op /\ last.l = l)
  /\ it' = it
  /\ why' = WhyNext(removed, moved)
  /\ UNCHANGED <<misused, frame>>

push_back(l, v) ==
  \E a \in Free(H) : Do("push_back", l, v, list_push_back(H, l, a, v), {}, {})

push_front(l, v) ==
  \E a \in Free(H) : Do("push_front", l, v, list_push_front(H, l, a, v), {}, {})

front(l) == Do("front", l, NoVal, list_front(H, l), {}, {})

back(l) == Do("back", l, NoVal, list_back(H, l), {}, {})

pop_back(l) ==
  LET r == list_pop_back(H, l)
  IN Do("pop_back", l, NoVal, r, IF r.res = Ok THEN {prev[s(l)]} ELSE {}, {})

pop_front(l) ==
  LET r == list_pop_front(H, l)
  IN Do("pop_front", l, NoVal, r, IF r.res = Ok THEN {next[s(l)]} ELSE {}, {})

clear(l) ==
  Do("clear", l, NoVal, Result(Ok, list_clear(H, l), NULL), Range(Fwd(H, l)), {})

\* l = o; the copies need n[o] cells after l's own are released.
assign(l, o) ==
  LET k == IF l = o THEN 0 ELSE n[o]
      avail == IF l = o THEN Free(H) ELSE Free(list_clear(H, l))
  IN \E cells \in CellSeqs(avail, k) :
       Do("assign", l, o, Result(Ok, list_assign(H, l, o, cells), NULL),
          IF l = o THEN {} ELSE Range(Fwd(H, l)), {})

\* list l(o): container l, empty, ends its life and a copy of o is constructed
\* in its place.
copy(l, o) ==
  /\ l # o /\ n[l] = 0
  /\ \E cells \in CellSeqs(Free(H), n[o]) :
       Do("copy", l, o, Result(Ok, list_copy(H, l, o, cells), NULL), {}, {})

sort(l) == Do("sort", l, NoVal, Result(Ok, list_sort(H, l), NULL), {}, {})

merge(l, o) ==
  LET h2 == list_merge(H, l, o)
  IN Do("merge", l, o, Result(Ok, h2, NULL), {}, IF h2 = H THEN {} ELSE Range(Fwd(H, o)))

reverse(l) == Do("reverse", l, NoVal, Result(Ok, list_reverse(H, l), NULL), {}, {})

unique(l) ==
  LET h2 == list_unique(H, l)
  IN Do("unique", l, NoVal, Result(Ok, h2, NULL), alloc \ h2.alloc, {})

\* l.insert(it, v); with take, the caller writes `it = l.insert(it, v)`.
InsertCall(l, v, take, r) ==
  /\ ~misused
  /\ SetH(r.h)
  /\ last' = Call("insert", l, v, r.res, r.ret, r.h # H, FALSE)
  /\ it' = IF r.res = Ok /\ take THEN iterator(l, r.ret) ELSE it
  /\ why' = IF r.res = Ok /\ take THEN "live" ELSE why
  /\ UNCHANGED frame

\* l.erase(it); with take, the caller writes `it = l.erase(it)`.
EraseCall(l, take, r) ==
  /\ ~misused
  /\ SetH(r.h)
  /\ last' = Call("erase", l, NoVal, r.res, r.ret, r.h # H, FALSE)
  /\ it' = IF r.res = Ok /\ take THEN iterator(l, r.ret) ELSE it
  /\ why' = IF r.res # Ok THEN why
            ELSE IF take THEN "live"
            ELSE IF why = "live" THEN "removed" ELSE why
  /\ UNCHANGED frame

\* The calls below pass an iterator that is valid (it denotes a node of its
\* originating container's ring, or its end) or default-constructed, or one
\* that the call turns down before it looks at the node.
insert(l, v, take) ==
  /\ why = "live" \/ it.owner # l
  /\ \E a \in (IF it.owner # l \/ it.p = NULL THEN {NULL} ELSE Free(H)) :
       InsertCall(l, v, take, list_insert(H, l, it, a, v))
  /\ UNCHANGED misused

erase(l, take) ==
  /\ why = "live" \/ it.owner # l \/ n[l] = 0
  /\ EraseCall(l, take, list_erase(H, l, it))
  /\ UNCHANGED misused

it_begin(l) ==
  /\ ~misused
  /\ it' = begin(H, l)
  /\ why' = "live"
  /\ last' = Call("begin", l, NoVal, Ok, next[s(l)], FALSE, FALSE)
  /\ UNCHANGED <<next, prev, val, alloc, n, misused, frame>>

it_end(l) ==
  /\ ~misused
  /\ it' = end(l)
  /\ why' = "live"
  /\ last' = Call("end", l, NoVal, Ok, s(l), FALSE, FALSE)
  /\ UNCHANGED <<next, prev, val, alloc, n, misused, frame>>

it_default ==
  /\ ~misused
  /\ it' = iterator_default
  /\ why' = "live"
  /\ last' = Call("iterator", NULL, NoVal, Ok, NULL, FALSE, FALSE)
  /\ UNCHANGED <<next, prev, val, alloc, n, misused, frame>>

\* ++it / it++
IncCall ==
  \E o \in iterator_inc(H, it) :
    /\ ~misused
    /\ it' = o.it
    /\ last' = Call("inc", it.owner, NoVal, o.res, o.it.p, FALSE, FALSE)
    /\ UNCHANGED <<next, prev, val, alloc, n, why, misused, frame>>

\* --it / it--
DecCall ==
  \E o \in iterator_dec(H, it) :
    /\ ~misused
    /\ it' = o.it
    /\ last' = Call("dec", it.owner, NoVal, o.res, o.it.p, FALSE, FALSE)
    /\ UNCHANGED <<next, prev, val, alloc, n, why, misused, frame>>

\* *it / it->
DerefCall ==
  \E o \in iterator_deref(H, it) :
    /\ ~misused
    /\ last' = Call("deref", it.owner, NoVal, o.res, o.ret, FALSE, FALSE)
    /\ UNCHANGED <<next, prev, val, alloc, n, it, why, misused, frame>>

inc == why = "live" /\ IncCall
dec == why = "live" /\ DecCall
deref == why = "live" /\ DerefCall

Next ==
  \/ \E l \in Lists, v \in Values : push_back(l, v)
  \/ \E l \in Lists, v \in Values : push_front(l, v)
  \/ \E l \in Lists : front(l)
  \/ \E l \in Lists : back(l)
  \/ \E l \in Lists : pop_back(l)
  \/ \E l \in Lists : pop_front(l)
  \/ \E l \in Lists, v \in Values, take \in BOOLEAN : insert(l, v, take)
  \/ \E l \in Lists, take \in BOOLEAN : erase(l, take)
  \/ \E l \in Lists : clear(l)
  \/ \E l \in Lists, o \in Lists : assign(l, o)
  \/ \E l \in Lists, o \in Lists : copy(l, o)
  \/ \E l \in Lists : sort(l)
  \/ \E l \in Lists, o \in Lists : merge(l, o)
  \/ \E l \in Lists : reverse(l)
  \/ \E l \in Lists : unique(l)
  \/ \E l \in Lists : it_begin(l)
  \/ \E l \in Lists : it_end(l)
  \/ it_default
  \/ inc
  \/ dec
  \/ deref

Spec == Init /\ [][Next]_vars

\* ------------------------------------------------------ sanity of Spec
Closed(h, l) ==
  /\ Len(Fwd(h, l)) <= MaxNodes
  /\ Len(Bwd(h, l)) <= MaxNodes
  /\ \A x \in Range(Fwd(h, l)) \cup {s(l)} :
       /\ h.next[x] \in Addrs /\ h.prev[h.next[x]] = x
       /\ h.prev[x] \in Addrs /\ h.next[h.prev[x]] = x

CountIsRing(h, l) ==
  /\ h.n[l] = Len(Fwd(h, l))
  /\ Bwd(h, l) = Rev(Fwd(h, l))
  /\ Range(Fwd(h, l)) \subseteq h.alloc

WellFormed ==
  /\ \A l \in Lists : Closed(H, l) /\ CountIsRing(H, l)
  /\ Range(Fwd(H, 1)) \cap Range(Fwd(H, 2)) = {}
  /\ alloc = Range(Fwd(H, 1)) \cup Range(Fwd(H, 2))
  /\ \A x \in alloc : val[x] \in Values
  /\ \A l \in Lists : val[s(l)] = NoVal
  /\ why = "live" =>
       \/ it = iterator_default
       \/ it.owner \in Lists /\ it.p \in Range(Fwd(H, it.owner)) \cup {s(it.owner)}

\* ---------------------------------------------------------------------
\* The editing calls alone: push_back / push_front / insert / erase and the
\* iterator operations, on both containers.
\* These calls store values and never compare them: two distinct values are
\* drawn.
EditValues == {0, MaxVal}

NextEdit ==
  \/ \E l \in Lists, v \in EditValues : push_back(l, v)
  \/ \E l \in Lists, v \in EditValues : push_front(l, v)
  \/ \E l \in Lists, v \in EditValues, take \in BOOLEAN : insert(l, v, take)
  \/ \E l \in Lists, take \in BOOLEAN : erase(l, take)
  \/ \E l \in Lists : it_begin(l)
  \/ \E l \in Lists : it_end(l)
  \/ it_default
  \/ inc

SpecEdit == Init /\ [][NextEdit]_vars

\* Walking a container with an iterator: the container grows at the back and
\* shrinks at the front, the caller takes begin(), end() or a default-constructed
\* iterator and moves or dereferences it while it is valid.
NextIter ==
  \/ \E l \in Lists, v \in EditValues : push_back(l, v)
  \/ \E l \in Lists : pop_front(l)
  \/ \E l \in Lists : it_begin(l)
  \/ \E l \in Lists : it_end(l)
  \/ it_default
  \/ inc
  \/ dec
  \/ deref

SpecIter == Init /\ [][NextIter]_vars

\* The calls that can fail, on both containers: front / back / pop_back /
\* pop_front (empty container), insert / erase (iterator turned down, empty
\* container) and the iterator operations.
NextFail ==
  \/ \E l \in Lists, v \in EditValues : push_back(l, v)
  \/ \E l \in Lists : front(l)
  \/ \E l \in Lists : back(l)
  \/ \E l \in Lists : pop_back(l)
  \/ \E l \in Lists : pop_front(l)
  \/ \E l \in Lists, v \in EditValues, take \in BOOLEAN : insert(l, v, take)
  \/ \E l \in Lists, take \in BOOLEAN : erase(l, take)
  \/ \E l \in Lists : it_begin(l)
  \/ \E l \in Lists : it_end(l)
  \/ it_default
  \/ inc
  \/ dec
  \/ deref

SpecFail == Init /\ [][NextFail]_vars

\* The container-level calls alone, with no iterator in the caller's hands.
NextAlgo ==
  \/ \E l \in Lists, v \in Values : push_back(l, v)
  \/ \E l \in Lists, v \in Values : push_front(l, v)
  \/ \E l \in Lists : pop_back(l)
  \/ \E l \in Lists : pop_front(l)
  \/ \E l \in Lists : clear(l)
  \/ \E l \in Lists, o \in Lists : assign(l, o)
  \/ \E l \in Lists, o \in Lists : copy(l, o)
  \/ \E l \in Lists : sort(l)
  \/ \E l \in Lists, o \in Lists : merge(l, o)
  \/ \E l \in Lists : reverse(l)
  \/ \E l \in Lists : unique(l)

SpecAlgo == Init /\ [][NextAlgo]_vars

\* ====================================== calls through invalidated iterators
\* The caller keeps an iterator whose node has left its originating container
\* (why # "live") and goes on using it.  Nothing in the iterator records that.
inc_stale == why # "live" /\ IncCall
dec_stale == why # "live" /\ DecCall
deref_stale == why # "live" /\ DerefCall

\* l.insert(it, v): the cell it.p holds a constructed node (relinked into the
\* other ring by merge, or handed out again by new) or a sentinel.
insert_stale(l, v) ==
  /\ why # "live" /\ it.owner = l /\ it.p \in Live(H)
  /\ \E a \in Free(H) :
       LET r == list_insert(H, l, it, a, v)
       IN InsertCall(l, v, FALSE, r) /\ misused' = TRUE

\* l.erase(it): the cell it.p holds a constructed node, or is l's sentinel.
erase_stale(l) ==
  /\ why # "live" /\ it.owner = l /\ n[l] # 0 /\ it.p \in alloc \cup {s(l)}
  /\ LET r == list_erase(H, l, it)
     IN EraseCall(l, FALSE, r) /\ misused' = (r.res = Ok)

\* erase(pos) past its checks with pos.p a released cell: pos.p->prev reads a,
\* pos.p->next reads b (any two pointers the stores below can go through),
\* the cell is released a second time, and n drops.
list_erase_dangling(h, l, a, b) ==
  LET nx1 == [h.next EXCEPT ![a] = b]
      pv1 == [h.prev EXCEPT ![b] = a]
  IN Result(Ok, [h EXCEPT !.next = nx1, !.prev = pv1, !.n[l] = @ - 1], b)

erase_dangling(l) ==
  /\ why # "live" /\ it.owner = l /\ n[l] # 0 /\ it.p \in Free(H)
  /\ \E a \in Live(H), b \in Live(H) :
       EraseCall(l, FALSE, list_erase_dangling(H, l, a, b))
  /\ misused' = TRUE

\* insert(pos, value) past its checks with pos.p a released cell: new returns
\* another cell, pos.p->prev reads q, and the store to pos.p->prev is lost.
list_insert_dangling(h, l, pos, cell, v, q) ==
  LET h1 == node_data(h, cell, v)
      nx1 == [h1.next EXCEPT ![cell] = pos.p]
      pv1 == [h1.prev EXCEPT ![cell] = q]
      nx2 == [nx1 EXCEPT ![q] = cell]
  IN Result(Ok, [h1 EXCEPT !.next = nx2, !.prev = pv1, !.n[l] = @ + 1], cell)

insert_dangling(l, v) ==
  /\ why # "live" /\ it.owner = l /\ it.p \in Free(H)
  /\ \E cell \in Free(H) \ {it.p}, q \in Live(H) :
       InsertCall(l, v, FALSE, list_insert_dangling(H, l, it, cell, v, q))
  /\ misused' = TRUE

NextEditMisuse ==
  \/ NextEdit
  \/ dec
  \/ deref
  \/ inc_stale
  \/ dec_stale
  \/ deref_stale
  \/ \E l \in Lists, v \in EditValues : insert_stale(l, v)
  \/ \E l \in Lists : erase_stale(l)
  \/ \E l \in Lists : erase_dangling(l)
  \/ \E l \in Lists, v \in EditValues : insert_dangling(l, v)

\* The editing calls, with every use of an invalidated iterator.  Once a call
\* has written through one the run is not followed further: every call above
\* is guarded by ~misused.
SpecEditMisuse == Init /\ [][NextEditMisuse]_vars

\* The whole interface, with the invalidated iterators whose cell holds a
\* constructed node (insert and erase then run as written, on that node).
NextMisuse ==
  \/ Next
  \/ inc_stale
  \/ dec_stale
  \/ deref_stale
  \/ \E l \in Lists, v \in Values : insert_stale(l, v)
  \/ \E l \in Lists : erase_stale(l)

SpecMisuse == Init /\ [][NextMisuse]_vars

\* ======================================= the algorithms, statement by statement
\* merge, reverse, unique and sort executed one loop iteration (or one
\* straight-line group of statements) per step.  frame holds the call: where
\* it stands (pc, named after the source line), its container l and argument
\* o, the memory at entry (h0) and the local variables (loc).  A step reads
\* and writes the memory exactly as the statements at its line do; no step is
\* bounded by anything but the loop conditions of the code.
At(pc) == frame.pc = pc

Goto(pc, loc) == frame' = [frame EXCEPT !.pc = pc, !.loc = loc]

\* `return` (or the end of the function body): the call is over.
Ret == frame' = [frame EXCEPT !.pc = "ret"]

Ghosts == UNCHANGED <<it, why, last, misused>>
Heap == UNCHANGED <<next, prev, val, alloc, n>>

\* The caller calls op on l (with argument o): the call stands at its first
\* statement.
Enter(op, pc, l, o, loc) ==
  /\ frame' = [pc |-> pc, op |-> op, l |-> l, o |-> o, h0 |-> H, loc |-> loc]
  /\ Heap /\ Ghosts

\* The call has returned to the caller.
returned ==
  /\ At("ret")
  /\ frame' = Idle
  /\ Heap /\ Ghosts

\* ------------------------------------------------------- merge, in steps
merge_call(l, o) ==
  /\ At("idle") /\ ~misused
  /\ Enter("merge", "merge_253", l, o, [a |-> NULL, b |-> NULL, start |-> NULL, cnt |-> 0])

\* if (this == &other || other.n == 0) return;
merge_253 ==
  /\ At("merge_253")
  /\ IF frame.l = frame.o \/ n[frame.o] = 0 THEN Ret ELSE Goto("merge_254", frame.loc)
  /\ Heap /\ Ghosts

\* if (n == 0) { move all from other; return; }
\* node *a = s->next; node *b = other.s->next;
merge_254 ==
  /\ At("merge_254")
  /\ IF n[frame.l] = 0
     THEN SetH(merge_move_all(H, frame.l, frame.o)) /\ Ret
     ELSE /\ Heap
          /\ Goto("merge_263", [frame.loc EXCEPT !.a = next[s(frame.l)],
                                                 !.b = next[s(frame.o)]])
  /\ Ghosts

\* while (b != other.s)
merge_263 ==
  /\ At("merge_263")
  /\ IF frame.loc.b = s(frame.o) THEN Ret ELSE Goto("merge_265", frame.loc)
  /\ Heap /\ Ghosts

\* while (a != s && !(*b->val < *a->val)) a = a->next;
merge_265 ==
  /\ At("merge_265")
  /\ IF frame.loc.a # s(frame.l) /\ merge_passes(H, frame.loc.a, frame.loc.b)
     THEN Goto("merge_265", [frame.loc EXCEPT !.a = next[frame.loc.a]])
     ELSE Goto("merge_266", frame.loc)
  /\ Heap /\ Ghosts

\* if (a == s) { splice the rest; return; } else { node *start = b; size_t cnt = 0;
merge_266 ==
  /\ At("merge_266")
  /\ IF frame.loc.a = s(frame.l)
     THEN SetH(merge_splice_rest(H, frame.l, frame.o, frame.loc.b)) /\ Ret
     ELSE /\ Heap
          /\ Goto("merge_280", [frame.loc EXCEPT !.start = frame.loc.b, !.cnt = 0])
  /\ Ghosts

\* while (b != other.s && (*b->val < *a->val)) { b = b->next; ++cnt; }
merge_280 ==
  /\ At("merge_280")
  /\ IF frame.loc.b # s(frame.o) /\ Less(val[frame.loc.b], val[frame.loc.a])
     THEN Goto("merge_280", [frame.loc EXCEPT !.b = next[frame.loc.b], !.cnt = @ + 1])
     ELSE Goto("merge_282", frame.loc)
  /\ Heap /\ Ghosts

\* endblk = ...; detach [start, endblk] from other; insert before a;
\* n += cnt; other.n -= cnt;   (the walk of line 281 only reads, and its
\* result is overwritten at line 282)
merge_282 ==
  /\ At("merge_282")
  /\ SetH(merge_take_block(H, frame.l, frame.o, frame.loc.a, frame.loc.start,
                           frame.loc.b, frame.loc.cnt))
  /\ Goto("merge_263", frame.loc)
  /\ Ghosts

\* ----------------------------------------------------- reverse, in steps
reverse_call(l) ==
  /\ At("idle") /\ ~misused
  /\ Enter("reverse", "reverse_297", l, l, [cur |-> NULL])

\* node *cur = s;
reverse_297 ==
  /\ At("reverse_297")
  /\ Goto("reverse_298", [cur |-> s(frame.l)])
  /\ Heap /\ Ghosts

\* do { t = cur->next; cur->next = cur->prev; cur->prev = t; cur = t; } while (cur != s);
reverse_298 ==
  /\ At("reverse_298")
  /\ LET cur == frame.loc.cur
         t == next[cur]
     IN /\ SetH([H EXCEPT !.next[cur] = prev[cur], !.prev[cur] = t])
        /\ IF t # s(frame.l) THEN Goto("reverse_298", [cur |-> t]) ELSE Ret
  /\ Ghosts

\* ------------------------------------------------------ unique, in steps
unique_call(l) ==
  /\ At("idle") /\ ~misused
  /\ Enter("unique", "unique_301", l, l, [cur |-> NULL, nx |-> NULL])

\* if (n <= 1) return;  node *cur = s->next;
unique_301 ==
  /\ At("unique_301")
  /\ IF n[frame.l] <= 1 THEN Ret
     ELSE Goto("unique_303", [frame.loc EXCEPT !.cur = next[s(frame.l)]])
  /\ Heap /\ Ghosts

\* while (cur != s) { node *nx = cur->next;
unique_303 ==
  /\ At("unique_303")
  /\ IF frame.loc.cur # s(frame.l)
     THEN Goto("unique_305", [frame.loc EXCEPT !.nx = next[frame.loc.cur]])
     ELSE Ret
  /\ Heap /\ Ghosts

\* while (nx != s && (*(cur->val) == *(nx->val)))
\*   { to_del = nx; nx = nx->next; erase(to_del); delete to_del; --n; }
\* cur = nx;
unique_305 ==
  /\ At("unique_305")
  /\ LET cur == frame.loc.cur
         nx == frame.loc.nx
     IN IF nx # s(frame.l) /\ Equal(val[cur], val[nx])
        THEN /\ SetH([delete_node(erase_node(H, nx), nx) EXCEPT !.n[frame.l] = @ - 1])
             /\ Goto("unique_305", [frame.loc EXCEPT !.nx = next[nx]])
        ELSE /\ Heap
             /\ Goto("unique_303", [frame.loc EXCEPT !.cur = nx])
  /\ Ghosts

\* -------------------------------------------------------- sort, in steps
\* arr and tmp are sequences (arr[p] of the code is arr[p + 1] here).
sort_call(l) ==
  /\ At("idle") /\ ~misused
  /\ Enter("sort", "sort_222", l, l,
           [m |-> 0, x |-> NULL, arr |-> <<>>, tmp |-> <<>>, width |-> 0, i |-> 0,
            lo |-> 0, mid |-> 0, r |-> 0, p |-> 0, q |-> 0, t |-> 0])

\* if (n <= 1) return;  size_t m = n;  node **arr = new node*[m];  x = s->next
sort_222 ==
  /\ At("sort_222")
  /\ IF n[frame.l] <= 1 THEN Ret
     ELSE Goto("sort_226", [frame.loc EXCEPT !.m = n[frame.l], !.x = next[s(frame.l)]])
  /\ Heap /\ Ghosts

\* for (node *x = s->next; x != s; x = x->next) arr[idx++] = x;
\* node **tmp = new node*[m];  width = 1
sort_226 ==
  /\ At("sort_226")
  /\ IF frame.loc.x # s(frame.l)
     THEN Goto("sort_226", [frame.loc EXCEPT !.arr = Append(@, frame.loc.x),
                                             !.x = next[frame.loc.x]])
     ELSE Goto("sort_229", [frame.loc EXCEPT !.tmp = [k \in 1..frame.loc.m |-> NULL],
                                             !.width = 1])
  /\ Heap /\ Ghosts

\* for (width = 1; width < m; width <<= 1) { i = 0
sort_229 ==
  /\ At("sort_229")
  /\ IF frame.loc.width < frame.loc.m
     THEN Goto("sort_230", [frame.loc EXCEPT !.i = 0])
     ELSE Goto("sort_247", frame.loc)
  /\ Heap /\ Ghosts

\* for (i = 0; i < m; i += (width << 1)) { l = i, mid = ..., r = ...; p = l, q = mid, t = l;
sort_230 ==
  /\ At("sort_230")
  /\ LET c == frame.loc
     IN IF c.i < c.m
        THEN Goto("sort_233", [c EXCEPT !.lo = c.i,
                                        !.mid = Min(c.i + c.width, c.m),
                                        !.r = Min(c.i + 2 * c.width, c.m),
                                        !.p = c.i,
                                        !.q = Min(c.i + c.width, c.m),
                                        !.t = c.i])
        ELSE Goto("sort_229", [c EXCEPT !.width = 2 * c.width])
  /\ Heap /\ Ghosts

\* while (p < mid && q < r) { if (!(*arr[q]->val < *arr[p]->val)) tmp[t++] = arr[p++];
\*                            else tmp[t++] = arr[q++]; }
sort_233 ==
  /\ At("sort_233")
  /\ LET c == frame.loc
     IN IF c.p < c.mid /\ c.q < c.r
        THEN IF sort_takes_left(H, c.arr[c.p + 1], c.arr[c.q + 1])
             THEN Goto("sort_233", [c EXCEPT !.tmp[c.t + 1] = c.arr[c.p + 1],
                                             !.t = @ + 1, !.p = @ + 1])
             ELSE Goto("sort_233", [c EXCEPT !.tmp[c.t + 1] = c.arr[c.q + 1],
                                             !.t = @ + 1, !.q = @ + 1])
        ELSE Goto("sort_241", c)
  /\ Heap /\ Ghosts

\* while (p < mid) tmp[t++] = arr[p++];
sort_241 ==
  /\ At("sort_241")
  /\ LET c == frame.loc
     IN IF c.p < c.mid
        THEN Goto("sort_241", [c EXCEPT !.tmp[c.t + 1] = c.arr[c.p + 1],
                                        !.t = @ + 1, !.p = @ + 1])
        ELSE Goto("sort_242", c)
  /\ Heap /\ Ghosts

\* while (q < r) tmp[t++] = arr[q++];
sort_242 ==
  /\ At("sort_242")
  /\ LET c == frame.loc
     IN IF c.q < c.r
        THEN Goto("sort_242", [c EXCEPT !.tmp[c.t + 1] = c.arr[c.q + 1],
                                        !.t = @ + 1, !.q = @ + 1])
        ELSE Goto("sort_243", c)
  /\ Heap /\ Ghosts

\* for (k = l; k < r; ++k) arr[k] = tmp[k];  }  i += (width << 1)
sort_243 ==
  /\ At("sort_243")
  /\ LET c == frame.loc
     IN Goto("sort_230",
             [c EXCEPT !.arr = [k \in 1..Len(c.arr) |->
                                  IF c.lo < k /\ k <= c.r THEN c.tmp[k] ELSE c.arr[k]],
                       !.i = c.i + 2 * c.width])
  /\ Heap /\ Ghosts

\* relink according to arr;  delete [] tmp; delete [] arr;
sort_247 ==
  /\ At("sort_247")
  /\ SetH(sort_relink(H, s(frame.l), frame.loc.arr))
  /\ Ret
  /\ Ghosts

\* One statement of the call under way.
Step ==
  \/ merge_253 \/ merge_254 \/ merge_263 \/ merge_265 \/ merge_266 \/ merge_280
  \/ merge_282
  \/ reverse_297 \/ reverse_298
  \/ unique_301 \/ unique_303 \/ unique_305
  \/ sort_222 \/ sort_226 \/ sort_229 \/ sort_230 \/ sort_233 \/ sort_241
  \/ sort_242 \/ sort_243 \/ sort_247
  \/ returned

\* l.push_back(v) between two calls of the algorithms (the ghost record of
\* the last call is left alone: the algorithms in steps do not keep it).
fill(l, v) ==
  /\ At("idle") /\ ~misused
  /\ \E a \in Free(H) : SetH(list_push_back(H, l, a, v).h)
  /\ UNCHANGED frame
  /\ Ghosts

\* The caller fills the two containers and calls the four algorithms; a call
\* that has begun runs on, statement after statement (the code is sequential
\* and nothing in it waits), until it returns.
NextSteps ==
  \/ \E l \in Lists, v \in Values : fill(l, v)
  \/ \E l \in Lists, o \in Lists : merge_call(l, o)
  \/ \E l \in Lists : reverse_call(l)
  \/ \E l \in Lists : unique_call(l)
  \/ \E l \in Lists : sort_call(l)
  \/ Step

SpecSteps == Init /\ [][NextSteps]_vars /\ WF_vars(Step)

\* The call that has just returned left the memory as the call taken as a
\* whole (list_merge, list_reverse, list_unique, list_sort) leaves it.
StepsAgree ==
  At("ret") =>
    H = CASE frame.op = "merge" -> list_merge(frame.h0, frame.l, frame.o)
          [] frame.op = "reverse" -> list_reverse(frame.h0, frame.l)
          [] frame.op = "unique" -> list_unique(frame.h0, frame.l)
          [] frame.op = "sort" -> list_sort(frame.h0, frame.l)

\* ================================================================ claims
\* The nodes an iterator of container l may validly denote: its ring.
Ring(h, l) == Range(Fwd(h, l)) \cup {s(l)}

\* `it` is a valid iterator of container l (a data node of l, or l's end).
ValidIn(l) == why = "live" /\ it.owner = l /\ it.p \in Ring(H, l)

\* The sequence q with c put immediately before p (at the end when p is the
\* sentinel sn).
InsertBefore(q, p, c, sn) ==
  IF p = sn THEN Append(q, c)
  ELSE LET i == CHOOSE j \in 1..Len(q) : q[j] = p
       IN SubSeq(q, 1, i - 1) \o <<c>> \o SubSeq(q, i, Len(q))

\* C1: after any sequence of push_back / push_front / insert / erase, each
\* container's count is the number of live data nodes met by forward
\* traversal from its sentinel, and backward traversal meets the same nodes
\* in reverse order.
C1_CountIsTraversal ==
  \A l \in Lists :
    /\ n[l] = Len(Fwd(H, l))
    /\ Range(Fwd(H, l)) \subseteq alloc
    /\ Bwd(H, l) = Rev(Fwd(H, l))

\* C3: a successful erase of node B of container l invalidates only the
\* iterators denoting B: every other valid iterator of either container still
\* denotes the same node with the same value, the returned iterator denotes
\* B's successor C, and incrementing an iterator at B's predecessor A (a data
\* node) yields C directly.
C3_EraseStability ==
  [][(last'.op = "erase" /\ last'.res = Ok) =>
       LET l == last'.l
           B == it.p
           A == prev[B]
           C == next[B]
       IN /\ B \notin Ring(H', l)
          /\ last'.ret = C
          /\ \A o \in Lists : \A x \in Ring(H, o) \ {B} :
               x \in Ring(H', o) /\ val'[x] = val[x]
          /\ A # s(l) =>
               iterator_inc(H', iterator(l, A)) = {[res |-> Ok, it |-> iterator(l, C)]}
  ]_vars

\* C3 witness: B was erased from between two data nodes A and C of a
\* three-node container, and the returned iterator denotes C.
C3_Witness ==
  /\ last.op = "erase" /\ last.res = Ok
  /\ n[last.l] = 2
  /\ last.ret \in alloc /\ prev[last.ret] \in alloc
  /\ Fwd(H, last.l) = <<prev[last.ret], last.ret>>

\* The iterator is not in the valid-data state: default-constructed, at the
\* end, or its node was removed from its container.
NotValidData == it.owner = NULL \/ it.p = s(it.owner) \/ why = "removed"

\* C4: dereferencing an iterator that is not in the valid-data state fails
\* with InvalidIterator.
C4_DerefInvalidThrows ==
  [][(last'.op = "deref" /\ NotValidData) => last'.res = invalid_iterator]_vars

\* C5: incrementing succeeds only from the valid-data state, moving to the
\* next ring node; from the end, a default-constructed iterator or an iterator
\* whose node was removed it fails with InvalidIterator and leaves the
\* iterator unchanged.
C5_IncOnlyFromValidData ==
  [][last'.op = "inc" =>
       IF NotValidData
       THEN last'.res = invalid_iterator /\ it' = it
       ELSE last'.res = Ok /\ it' = iterator(it.owner, next[it.p])
  ]_vars

\* C6: erase(pos) on an empty container fails with EmptyContainer whatever
\* iterator is passed; on a non-empty container it fails with InvalidIterator
\* when pos is the end, default-constructed or owned by the other container;
\* a failing erase changes no ring and no count.
C6_EraseFailures ==
  [][last'.op = "erase" =>
       LET l == last'.l
       IN /\ n[l] = 0 => last'.res = container_is_empty
          /\ (n[l] # 0 /\ (it = end(l) \/ it = iterator_default \/ it.owner # l))
               => last'.res = invalid_iterator
          /\ last'.res # Ok => H' = H
  ]_vars

\* C6 witness: erase on an empty container was handed an iterator to a data
\* node of the other container and failed with EmptyContainer.
C6_Witness ==
  /\ last.op = "erase" /\ last.res = container_is_empty
  /\ it.owner = Other(last.l) /\ it.p \in Range(Fwd(H, it.owner))

\* C7: insert(pos, value) with pos a valid iterator of this container creates
\* exactly one node holding value, links it immediately before pos's node,
\* adds one to the count, keeps the order of the existing elements and returns
\* an iterator denoting the new node; with pos not owned by this container it
\* fails with InvalidIterator and changes no container.
C7_Insert ==
  [][last'.op = "insert" =>
       LET l == last'.l
           o == Other(last'.l)
           c == last'.ret
       IN /\ ValidIn(l) =>
               /\ last'.res = Ok
               /\ c \in DataAddrs \ alloc
               /\ alloc' = alloc \cup {c}
               /\ val'[c] = last'.arg
               /\ \A x \in alloc : val'[x] = val[x]
               /\ Fwd(H', l) = InsertBefore(Fwd(H, l), it.p, c, s(l))
               /\ Bwd(H', l) = Rev(Fwd(H', l))
               /\ n'[l] = n[l] + 1
               /\ Fwd(H', o) = Fwd(H, o) /\ Bwd(H', o) = Bwd(H, o) /\ n'[o] = n[o]
          /\ it.owner # l => last'.res = invalid_iterator /\ H' = H
  ]_vars

\* C7 witness: a node was inserted between two data nodes.
C7_Witness ==
  /\ last.op = "insert" /\ last.res = Ok
  /\ next[last.ret] \in alloc /\ prev[last.ret] \in alloc
  /\ val[last.ret] = last.arg

\* C2: after any sequence of public operations on the two containers, each
\* ring is circular and doubly consistent, the sentinel is on its own ring,
\* and count = 0 exactly when the ring holds the sentinel alone.
C2_RingAndCount ==
  \A l \in Lists :
    /\ Len(Fwd(H, l)) <= MaxNodes
    /\ \A x \in Ring(H, l) :
         /\ next[x] \in Addrs /\ prev[next[x]] = x
         /\ prev[x] \in Addrs /\ next[prev[x]] = x
    /\ n[l] = 0 <=> next[s(l)] = s(l)

\* C8: an iterator of container B whose node merge has moved to the other
\* container is invalid: B.insert(it, v) and B.erase(it) fail and change no
\* ring and no count.  (The failure is InvalidIterator; erase on an empty B
\* fails with EmptyContainer first.)
C8_MovedIteratorRejected ==
  [][(why = "moved" /\ last'.op \in {"insert", "erase"} /\ last'.l = it.owner) =>
       /\ last'.res = IF last'.op = "erase" /\ n[it.owner] = 0
                      THEN container_is_empty ELSE invalid_iterator
       /\ H' = H
       /\ \A l \in Lists : n'[l] = Len(Fwd(H', l))
  ]_vars

Pos(q, x) == CHOOSE i \in 1..Len(q) : q[i] = x

\* C9: sort() is a stable sort: forward traversal afterwards meets the same
\* nodes in non-decreasing order, two nodes neither of whose values is less
\* than the other keep their relative order, no value, count or other
\* container changes, and a container of size <= 1 is left untouched.
C9_SortStable ==
  [][last'.op = "sort" =>
       LET l == last'.l
           o == Other(last'.l)
           q == Fwd(H, l)
           q2 == Fwd(H', l)
       IN /\ Len(q2) = Len(q) /\ Range(q2) = Range(q)
          /\ \A i, j \in 1..Len(q2) : i < j => ~Less(val[q2[j]], val[q2[i]])
          /\ \A x, y \in Range(q) :
               (Pos(q, x) < Pos(q, y) /\ ~Less(val[x], val[y]) /\ ~Less(val[y], val[x]))
                 => Pos(q2, x) < Pos(q2, y)
          /\ Bwd(H', l) = Rev(q2)
          /\ val' = val /\ alloc' = alloc /\ n' = n
          /\ Fwd(H', o) = Fwd(H, o) /\ Bwd(H', o) = Bwd(H, o)
          /\ n[l] <= 1 => H' = H
  ]_vars

\* C9 witness: sort() reordered a three-node container into values 0, 1, 1
\* (the two equal values behind the smaller one).
C9_Witness ==
  /\ last.op = "sort" /\ last.chg
  /\ Vals(H, Fwd(H, last.l)) = <<0, 1, 1>>

\* C10: sort() called twice in a row leaves the memory and the counts exactly
\* as the first call left them.
C10_SortIdempotent ==
  [][(last.op = "sort" /\ last'.op = "sort" /\ last'.l = last.l /\ last'.rep) => H' = H]_vars

\* C10 witness: a second sort() in a row, after a first one that reordered a
\* container holding equal values, changed nothing.
C10_Witness ==
  /\ last.op = "sort" /\ last.rep /\ ~last.chg
  /\ \E i \in 1..(n[last.l] - 1) :
       val[Fwd(H, last.l)[i]] = val[Fwd(H, last.l)[i + 1]]
  /\ n[last.l] >= 3

\* q is sorted by <: no element is less than one before it.
SortedBy(h, q) == \A i, j \in 1..Len(q) : i < j => ~Less(h.val[q[j]], h.val[q[i]])

\* C11: l.merge(o) with l and o distinct and each sorted by <: afterwards l
\* holds exactly the nodes of both in non-decreasing order, each side keeps
\* its internal order, a node that came from o stands before a node that came
\* from l only when its value is less (equal keys: l's first), l's count is
\* the sum of the two counts, and o is empty (count 0, sentinel alone).
C11_MergeSorted ==
  [][(last'.op = "merge" /\ last'.arg # last'.l
        /\ SortedBy(H, Fwd(H, last'.l)) /\ SortedBy(H, Fwd(H, last'.arg))) =>
       LET l == last'.l
           o == last'.arg
           A == Fwd(H, l)
           B == Fwd(H, o)
           F == Fwd(H', l)
       IN /\ Len(F) = Len(A) + Len(B)
          /\ Range(F) = Range(A) \cup Range(B)
          /\ val' = val /\ alloc' = alloc
          /\ SortedBy(H', F)
          /\ \A x, y \in Range(A) : Pos(A, x) < Pos(A, y) => Pos(F, x) < Pos(F, y)
          /\ \A x, y \in Range(B) : Pos(B, x) < Pos(B, y) => Pos(F, x) < Pos(F, y)
          /\ \A x \in Range(A), y \in Range(B) :
               Pos(F, y) < Pos(F, x) => Less(val[y], val[x])
          /\ Bwd(H', l) = Rev(F)
          /\ n'[l] = n[l] + n[o]
          /\ n'[o] = 0 /\ next'[s(o)] = s(o) /\ prev'[s(o)] = s(o)
  ]_vars

\* C11 witness: a merge that changed the memory left three nodes with the
\* values 0, 0, 1 (an equal key among them) in this container and emptied the
\* other.
C11_Witness ==
  /\ last.op = "merge" /\ last.arg # last.l /\ last.chg
  /\ n[last.l] = 3 /\ n[last.arg] = 0
  /\ Vals(H, Fwd(H, last.l)) = <<0, 0, 1>>

\* C12: L.merge(L) and L.merge(E) with E empty change nothing: the links, the
\* node order and the count of every container are as before the call.
C12_MergeNoOp ==
  [][(last'.op = "merge" /\ (last'.arg = last'.l \/ n[last'.arg] = 0)) =>
       /\ H' = H
       /\ \A l \in Lists : Fwd(H', l) = Fwd(H, l) /\ Bwd(H', l) = Bwd(H, l)
  ]_vars

\* C12 witness: a container of at least two nodes was merged with itself.
C12_Witness ==
  /\ last.op = "merge" /\ last.arg = last.l /\ ~last.chg
  /\ n[last.l] >= 2

\* C13: reverse() makes forward traversal meet the same nodes in the former
\* backward order, with the count, the values and the other container
\* unchanged and the ring still doubly consistent; reversing the outcome once
\* more gives back the memory of before the call; on an empty or one-node
\* container the sequence is unchanged.
C13_Reverse ==
  [][last'.op = "reverse" =>
       LET l == last'.l
           o == Other(last'.l)
           q == Fwd(H, l)
           q2 == Fwd(H', l)
       IN /\ q2 = Bwd(H, l)
          /\ q2 = Rev(q)
          /\ Bwd(H', l) = Rev(q2)
          /\ \A x \in Ring(H', l) : prev'[next'[x]] = x /\ next'[prev'[x]] = x
          /\ n' = n /\ val' = val /\ alloc' = alloc
          /\ Fwd(H', o) = Fwd(H, o) /\ Bwd(H', o) = Bwd(H, o)
          /\ list_reverse(H', l) = H
          /\ n[l] <= 1 => q2 = q
  ]_vars

\* C13 witness: the second of two reverse() calls in a row on a three-node
\* container with two different values at its ends.
C13_Witness ==
  /\ last.op = "reverse" /\ last.rep /\ last.chg
  /\ n[last.l] = 3
  /\ val[next[s(last.l)]] # val[prev[s(last.l)]]

\* The node x of q opens a maximal run of ==-equal values: it is the first
\* node, or the node before it holds a different value.
OpensRun(h, q, x) ==
  Pos(q, x) = 1 \/ ~Equal(h.val[q[Pos(q, x) - 1]], h.val[x])

\* C14: unique() keeps exactly the first node of every maximal run of
\* consecutive ==-equal values, in the former order, and removes the rest of
\* the run: no two adjacent survivors are equal, equal values that were not
\* adjacent both stay, the count drops by the number of removed nodes, and
\* nothing else changes.
C14_Unique ==
  [][last'.op = "unique" =>
       LET l == last'.l
           o == Other(last'.l)
           q == Fwd(H, l)
           q2 == Fwd(H', l)
           gone == Range(q) \ Range(q2)
       IN /\ q2 = SelectSeq(q, LAMBDA x : OpensRun(H, q, x))
          /\ \A i \in 1..(Len(q2) - 1) : ~Equal(val'[q2[i]], val'[q2[i + 1]])
          /\ \A x \in Range(q2) : val'[x] = val[x]
          /\ alloc' = alloc \ gone
          /\ n'[l] = n[l] - Cardinality(gone)
          /\ n'[l] = Len(q2)
          /\ Bwd(H', l) = Rev(q2)
          /\ Fwd(H', o) = Fwd(H, o) /\ Bwd(H', o) = Bwd(H, o) /\ n'[o] = n[o]
          /\ \A x \in Range(Fwd(H, o)) : val'[x] = val[x]
  ]_vars

\* C14 witness: unique() removed a node and left two nodes with the values
\* 0 and 1.
C14_Witness ==
  /\ last.op = "unique" /\ last.chg
  /\ Vals(H, Fwd(H, last.l)) = <<0, 1>>

\* C15: decrementing the end iterator of a non-empty container succeeds and
\* the iterator then denotes the last element; decrementing the end iterator
\* of an empty container, or a default-constructed iterator, fails with
\* InvalidIterator and leaves the iterator as it was.  No decrement changes a
\* container.
C15_Decrement ==
  [][last'.op = "dec" =>
       /\ (it.owner \in Lists /\ it = end(it.owner) /\ n[it.owner] # 0) =>
            /\ last'.res = Ok
            /\ it' = iterator(it.owner, Fwd(H, it.owner)[n[it.owner]])
            /\ iterator_deref(H', it') = {[res |-> Ok, ret |-> val[prev[s(it.owner)]]]}
            /\ iterator_inc(H', it') = {[res |-> Ok, it |-> it]}
       /\ (it.owner \in Lists /\ it = end(it.owner) /\ n[it.owner] = 0) =>
            last'.res = invalid_iterator /\ it' = it
       /\ it = iterator_default => last'.res = invalid_iterator /\ it' = it
       /\ H' = H
  ]_vars

\* C15 witness: a decrement succeeded and the iterator denotes the last of
\* at least two elements (a decrement lands there only from the end).
C15_Witness ==
  /\ last.op = "dec" /\ last.res = Ok
  /\ it.owner \in Lists /\ n[it.owner] >= 2
  /\ it.p = prev[s(it.owner)] /\ it.p \in alloc

C17_FailuresChangeNothing ==
  [][/\ last'.op \in {"front", "back", "pop_back", "pop_front"} =>
          (last'.res = IF Fwd(H, last'.l) = <<>> THEN container_is_empty ELSE Ok)
     /\ last'.res # Ok => H' = H
  ]_vars

\* C17 witness: front() failed with EmptyContainer on an empty container
\* while the other container held two nodes.
C17_Witness ==
  /\ last.op = "front" /\ last.res = container_is_empty
  /\ n[last.l] = 0 /\ n[Other(last.l)] = 2

\* C19: sort(), reverse() and merge(other) only relink: no node is created,
\* released or overwritten; every iterator that denoted a data node of this
\* container still denotes a data node of it with the same value; end() still
\* closes the ring (its predecessor is the last node); and after merge every
\* node that was in other's ring is, at the same address and with the same
\* value, in this container's ring.
C19_RelinkOnly ==
  [][last'.op \in {"sort", "reverse", "merge"} =>
       LET l == last'.l
           q2 == Fwd(H', l)
       IN /\ alloc' = alloc /\ val' = val
          /\ \A x \in Range(Fwd(H, l)) :
               /\ x \in Range(q2)
               /\ iterator_deref(H', iterator(l, x)) = {[res |-> Ok, ret |-> val[x]]}
          /\ Len(q2) = n'[l] /\ Bwd(H', l) = Rev(q2)
          /\ iterator_dec(H', end(l)) =
               IF q2 = <<>> THEN {[res |-> invalid_iterator, it |-> end(l)]}
               ELSE {[res |-> Ok, it |-> iterator(l, q2[Len(q2)])]}
          /\ last'.op = "merge" =>
               /\ \A y \in Range(Fwd(H, last'.arg)) :
                    y \in Range(q2) /\ val'[y] = val[y]
               /\ Range(q2) = Range(Fwd(H, l)) \cup Range(Fwd(H, last'.arg))
          /\ last'.op # "merge" => Range(q2) = Range(Fwd(H, l))
  ]_vars

\* C19 witness: a merge that moved nodes left three nodes with the values
\* 0, 1, 1 in this container.
C19_Witness ==
  /\ last.op = "merge" /\ last.chg
  /\ n[last.l] = 3
  /\ Vals(H, Fwd(H, last.l)) = <<0, 1, 1>>

\* The two rings of a merge are whole: each is doubly consistent and as long
\* as its count says, every constructed node is on exactly one of them, and
\* the counts add up to the sum at entry.
NothingHalfDone(l, o, h0) ==
  /\ \A c \in {l, o} :
       /\ Len(Fwd(H, c)) = n[c]
       /\ Bwd(H, c) = Rev(Fwd(H, c))
       /\ \A x \in Ring(H, c) : prev[next[x]] = x /\ next[prev[x]] = x
  /\ Range(Fwd(H, l)) \cap Range(Fwd(H, o)) = {}
  /\ Range(Fwd(H, l)) \cup Range(Fwd(H, o)) = alloc
  /\ alloc = h0.alloc
  /\ n[l] + n[o] = h0.n[l] + h0.n[o]

\* C18: in merge(other) on two distinct non-empty containers, whenever the
\* outer loop is at its head (line 263) and when the call returns, no
\* transfer is half done.
C18_MergeLoopInvariant ==
  ((At("merge_263") \/ (At("ret") /\ frame.op = "merge"))
     /\ frame.l # frame.o /\ frame.h0.n[frame.l] > 0 /\ frame.h0.n[frame.o] > 0)
    => NothingHalfDone(frame.l, frame.o, frame.h0)

\* C18 witness: the outer loop of merge is at its head with one node already
\* transferred and another still in other.
C18_Witness ==
  /\ At("merge_263")
  /\ frame.h0.n[frame.l] > 0
  /\ n[frame.l] > frame.h0.n[frame.l]
  /\ n[frame.o] > 0

\* C20: every call of sort, merge, reverse and unique that has begun returns;
\* each pass of merge's outer loop that does not return takes at least one
\* node out of other; and merge on two distinct containers, sorted or not,
\* returns with other empty and the count of this the sum of the two counts
\* at entry.
C20_Terminates ==
  /\ (frame.pc # "idle") ~> (frame.pc = "idle")
  /\ [][At("merge_282") =>
          /\ n'[frame.o] < n[frame.o]
          /\ Len(Fwd(H', frame.o)) < Len(Fwd(H, frame.o))]_vars
  /\ []((At("ret") /\ frame.op = "merge" /\ frame.l # frame.o) =>
          /\ n[frame.o] = 0 /\ Fwd(H, frame.o) = <<>>
          /\ n[frame.l] = frame.h0.n[frame.l] + frame.h0.n[frame.o]
          /\ Len(Fwd(H, frame.l)) = n[frame.l])

\* C20 witness: merge has returned on two containers of which this one was
\* not sorted, after at least one pass of the outer loop that went on.
C20_Witness ==
  /\ At("ret") /\ frame.op = "merge" /\ frame.l # frame.o
  /\ ~SortedBy(frame.h0, Fwd(frame.h0, frame.l))
  /\ frame.loc.start # NULL

====
